---- MODULE Spec2Model ----
(***************************************************************************)
(* Model of photonmover/instruments/Oscilloscopes/RigolDS1000.py: the      *)
(* RigolDS1000 driver object, its transport handle (self.gpib) and the     *)
(* SCPI commands each method sends.                                        *)
(*                                                                         *)
(* One action is one method call.  `call' holds the method name and its    *)
(* arguments, `dev' the replies the instrument gave during the call (the   *)
(* kind of reply first),                                                   *)
(* `sent' the transport operations the call performed in order, `ret' the  *)
(* outcome (None, a value, or the exception that left the method) and      *)
(* `csv' the files the call wrote.  The driver is single-threaded and      *)
(* blocking: `pc' is "idle" while the caller is between calls and          *)
(* "returned" when a call has just ended and its outcome is on record.     *)
(*                                                                         *)
(* A formatted command is a tuple: the format string of the source first,  *)
(* then the substituted arguments.  Python lists are 0-indexed, sequences  *)
(* here 1-indexed: preamble[2] of the source is pre[3] here.               *)
(* A Python float argument is an exact rational <<n, d>>, d > 0; None is   *)
(* the empty tuple.                                                        *)
(***************************************************************************)
EXTENDS Integers, Sequences, FiniteSets, TLC

VARIABLES instr_address, gpib, is_initialized, pc, call, dev, sent, ret, csv

vars == <<instr_address, gpib, is_initialized, pc, call, dev, sent, ret, csv>>

driver == <<instr_address, gpib, is_initialized>>

(* ------------------------------ bounds -------------------------------- *)

\* averaging counts tried: -2..MaxNumAvg
MaxNumAvg == 1030
\* longest channel list given to read_waveform
MaxChannels == 3
\* samples a channel holds beyond its first one
MaxTail == 1
\* largest sample count the preamble announces
MaxPoints == 3
\* horizontal ranges tried, in microseconds: 0..MaxRangeMicros
MaxRangeMicros == 30

(* ------------------------------ values -------------------------------- *)

None == <<>>

Addresses == {"USB0::0x1AB1::0x04CE::DS1ZA"}

\* channel arguments tried: the four channels and one value on each side
ChannelArgs == 0..5

BwArgs == {0, 1, 2}

OnArgs == {0, 1, 2}

CouplingArgs == {"AC", "DC", "GND", "LFR", "HFR", "XX"}

AcqTypeArgs == {"NORM", "AVER", "PEAK", "HRES", "XX"}

ItemArgs == {"VMAX", "VMIN", "VPP", "VAVG", "PER", "FREQ", "XX"}

ModeArgs == {"EDGE", "PULSE", "RUNT", "WIND", "SLOPE", "NEDG", "PATT", "DEL", "XX"}

SweepArgs == {"AUTO", "NORM", "SING", "XX"}

\* rnge, offset and level arguments: None or a float
FloatArgs == {None, <<1, 1>>, <<1, 2000>>, <<-3, 2>>}

NumAvgArgs == (-2)..MaxNumAvg

RangeArgs == {<<k, 1000000>> : k \in 0..MaxRangeMicros}

ScaleArgs == {<<k, 1000000>> : k \in 0..3} \cup {<<k, 12000000>> : k \in 0..MaxRangeMicros}

FileNameArgs == {None, <<"wave">>}

(* --------------------------- transport log ---------------------------- *)

Write(cmd) == <<"write", cmd>>

ReadRaw == <<"read_raw">>

QueryAscii(cmd) == <<"query_ascii_values", cmd>>

Sleep(s) == <<"sleep", s>>

Returned(v) == <<"return", v>>

Raised(e) == <<"raise", e>>

\* the exception of the first transport operation on a handle that is not
\* open: self.gpib is None (AttributeError) or the session is closed
HandleError == IF gpib = "None" THEN Raised("AttributeError") ELSE Raised("InvalidSession")

\* a call that performed the operations ops and then returned r; its first
\* transport operation raises when the handle is not open
Finish(c, d, ops, r) ==
    /\ pc = "idle"
    /\ pc' = "returned"
    /\ call' = c
    /\ csv' = <<>>
    /\ IF ops = <<>>
          THEN sent' = <<>> /\ dev' = <<>> /\ ret' = r
          ELSE IF gpib = "open"
               THEN sent' = ops /\ dev' = d /\ ret' = r
               ELSE sent' = <<>> /\ dev' = <<>> /\ ret' = HandleError
    /\ UNCHANGED driver

(* ------------------------- number formatting -------------------------- *)

RECURSIVE Pow(_, _)
Pow(b, e) == IF e = 0 THEN 1 ELSE b * Pow(b, e - 1)

\* "%.<p>f" % x: the decimal with p fraction digits nearest to x, given as
\* the count of units of 10^-p.  x is a binary float in the source, so an
\* exact decimal tie goes either way.
FormatF(x, p) ==
    LET num == x[1] * Pow(10, p)
        f == num \div x[2]
        r == num % x[2]
    IN  IF 2 * r < x[2] THEN {f}
        ELSE IF 2 * r > x[2] THEN {f + 1}
        ELSE {f, f + 1}

\* x / k of Python (true division)
TrueDiv(x, k) == <<x[1], x[2] * k>>

(* ----------------------------- lifecycle ------------------------------ *)

Init ==
    /\ instr_address \in Addresses \cup {"None"}
    /\ gpib = "None"
    /\ is_initialized = FALSE
    /\ pc = "idle"
    /\ call = <<>>
    /\ dev = <<>>
    /\ sent = <<>>
    /\ ret = Returned(None)
    /\ csv = <<>>

_set_address(addr) == instr_address' = addr

\* open_ok: whether rm.open_resource succeeds for the address
initialize(override_address, open_ok) ==
    LET addr == IF override_address /= "None" THEN override_address ELSE instr_address
    IN  /\ pc = "idle"
        /\ pc' = "returned"
        /\ _set_address(addr)
        /\ call' = <<"initialize", override_address>>
        /\ dev' = <<"open_resource", open_ok>>
        /\ sent' = <<>>
        /\ csv' = <<>>
        /\ IF addr = "None"
              THEN /\ ret' = Returned(None)
                   /\ UNCHANGED <<gpib, is_initialized>>
              ELSE IF open_ok
                   THEN /\ gpib' = "open"
                        /\ is_initialized' = TRUE
                        /\ ret' = Returned(None)
                   ELSE /\ ret' = Raised("VisaIOError")
                        /\ UNCHANGED <<gpib, is_initialized>>

close ==
    /\ pc = "idle"
    /\ pc' = "returned"
    /\ call' = <<"close">>
    /\ dev' = <<>>
    /\ sent' = <<>>
    /\ csv' = <<>>
    /\ IF gpib = "None"
          THEN /\ ret' = Raised("AttributeError")
               /\ UNCHANGED gpib
          ELSE /\ gpib' = "closed"
               /\ ret' = Returned(None)
    /\ UNCHANGED <<instr_address, is_initialized>>

\* scope_list: what rm.list_resources returns; list_ok: whether it returns
find_address(scope_list, list_ok) ==
    /\ pc = "idle"
    /\ pc' = "returned"
    /\ call' = <<"find_address">>
    /\ dev' = <<"list_resources", scope_list, list_ok>>
    /\ sent' = <<>>
    /\ csv' = <<>>
    /\ ret' = IF list_ok THEN Returned(scope_list) ELSE Raised("Warning")
    /\ IF list_ok /\ Len(scope_list) = 1
          THEN _set_address(scope_list[1])
          ELSE UNCHANGED instr_address
    /\ UNCHANGED <<gpib, is_initialized>>

\* the caller has taken the outcome of the last call and goes on
next_call ==
    /\ pc = "returned"
    /\ pc' = "idle"
    /\ call' = <<>>
    /\ dev' = <<>>
    /\ sent' = <<>>
    /\ ret' = Returned(None)
    /\ csv' = <<>>
    /\ UNCHANGED driver

(* -------------------------- simple commands --------------------------- *)

autoscale == Finish(<<"autoscale">>, <<>>, <<Write(<<":AUT">>)>>, Returned(None))

clear == Finish(<<"clear">>, <<>>, <<Write(<<":CLE">>)>>, Returned(None))

run == Finish(<<"run">>, <<>>, <<Write(<<":RUN">>)>>, Returned(None))

stop == Finish(<<"stop">>, <<>>, <<Write(<<":STOP">>)>>, Returned(None))

single == Finish(<<"single">>, <<>>, <<Write(<<":SING">>)>>, Returned(None))

force_trigger == Finish(<<"force_trigger">>, <<>>, <<Write(<<":TFOR">>)>>, Returned(None))

(* ------------------------------ setters ------------------------------- *)

Channels == {1, 2, 3, 4}

MAX_AVERAGES == 1024

\* round(np.log2(n)) for an odd n >= 1: the k with 2^(k-1/2) < n < 2^(k+1/2)
\* (log2 of an odd n > 1 is irrational, so there is no tie)
RoundLog2(n) ==
    CHOOSE k \in 0..14 : /\ n * n < Pow(2, 2 * k + 1)
                         /\ k = 0 \/ Pow(2, 2 * k - 1) < n * n

\* the operations and outcome of set_acq_averages: a negative odd count
\* makes np.log2 nan and round() raise before anything is written
set_acq_averages_run_coerce_first(num_avg) ==
    LET coerced == IF num_avg % 2 /= 0 /\ num_avg > 0 THEN RoundLog2(num_avg) ELSE num_avg
        clamped == IF coerced > MAX_AVERAGES THEN MAX_AVERAGES ELSE coerced
    IN  IF num_avg % 2 /= 0 /\ num_avg < 0
        THEN [ops |-> <<>>, ret |-> Raised("ValueError")]
        ELSE [ops |-> <<Write(<<"ACQ:AVER %d", clamped>>)>>, ret |-> Returned(None)]

set_acq_averages_run(num_avg) ==
    LET clamped == IF num_avg > MAX_AVERAGES THEN MAX_AVERAGES ELSE num_avg
    IN  IF clamped % 2 /= 0
        THEN IF clamped < 0
             THEN [ops |-> <<>>, ret |-> Raised("ValueError")]
             ELSE [ops |-> <<Write(<<"ACQ:AVER %d", RoundLog2(clamped)>>)>>,
                   ret |-> Returned(None)]
        ELSE [ops |-> <<Write(<<"ACQ:AVER %d", clamped>>)>>, ret |-> Returned(None)]

set_acq_averages(num_avg) ==
    LET r == set_acq_averages_run(num_avg)
    IN  Finish(<<"set_acq_averages", num_avg>>, <<>>, r.ops, r.ret)

set_acq_type_ops(mode) ==
    IF mode \notin {"NORM", "AVER", "PEAK", "HRES"} THEN <<>>
    ELSE <<Write(<<":ACQ:TYPE %s", mode>>)>>

set_acq_type(mode) ==
    Finish(<<"set_acq_type", mode>>, <<>>, set_acq_type_ops(mode), Returned(None))

set_bw_ops_any_channel(channel, bw) ==
    IF bw \notin {0, 1} THEN <<>>
    ELSE (IF bw = 0 THEN <<Write(<<":CHAN%d:BWL OFF", channel>>)>> ELSE <<>>)
         \o (IF bw = 1 THEN <<Write(<<":CHAN%d:BWL 20M", channel>>)>> ELSE <<>>)

set_bw_ops(channel, bw) ==
    IF channel \notin Channels THEN <<>>
    ELSE IF bw \notin {0, 1} THEN <<>>
    ELSE (IF bw = 0 THEN <<Write(<<":CHAN%d:BWL OFF", channel>>)>> ELSE <<>>)
         \o (IF bw = 1 THEN <<Write(<<":CHAN%d:BWL 20M", channel>>)>> ELSE <<>>)

set_bw(channel, bw) ==
    Finish(<<"set_bw", channel, bw>>, <<>>, set_bw_ops(channel, bw), Returned(None))

set_coupling_type_ops(channel, coupling) ==
    IF channel \notin Channels THEN <<>>
    ELSE IF coupling \notin {"AC", "DC", "GND"} THEN <<>>
    ELSE <<Write(<<":CHAN%d:COUP %s", channel, coupling>>)>>

set_coupling_type(channel, coupling) ==
    Finish(<<"set_coupling_type", channel, coupling>>, <<>>,
           set_coupling_type_ops(channel, coupling), Returned(None))

channel_display_ops(channel, on) ==
    IF channel \notin Channels THEN <<>>
    ELSE IF on \notin {0, 1} THEN <<>>
    ELSE <<Write(<<":CHAN%d:DISP %d", channel, on>>)>>

channel_display(channel, on) ==
    Finish(<<"channel_display", channel, on>>, <<>>,
           channel_display_ops(channel, on), Returned(None))

\* every sequence of writes set_vertical_range can make (one per way the
\* "%.3f" conversions round)
set_vertical_range_ops(channel, rnge, offset) ==
    IF channel \notin Channels THEN {<<>>}
    ELSE LET rs == IF rnge /= None
                   THEN {<<Write(<<":CHAN%d:RANG %.3f", channel, v>>)>> : v \in FormatF(rnge, 3)}
                   ELSE {<<>>}
             os == IF offset /= None
                   THEN {<<Write(<<":CHAN%d:OFFS %.3f", channel, v>>)>> : v \in FormatF(offset, 3)}
                   ELSE {<<>>}
         IN  {r \o o : r \in rs, o \in os}

set_vertical_range(channel, rnge, offset) ==
    \E ops \in set_vertical_range_ops(channel, rnge, offset) :
        Finish(<<"set_vertical_range", channel, rnge, offset>>, <<>>, ops, Returned(None))

set_horizonal_scale_ops(scale) ==
    {<<Write(<<":TIM:SCAL %.7f", v>>)>> : v \in FormatF(scale, 7)}

set_horizonal_scale(scale) ==
    \E ops \in set_horizonal_scale_ops(scale) :
        Finish(<<"set_horizonal_scale", scale>>, <<>>, ops, Returned(None))

DIVISIONS == 12

horizontal_range_scale_ten(rnge) == TrueDiv(rnge, 10)

\* the scale set_horizontal_range passes on
horizontal_range_scale(rnge) == TrueDiv(rnge, DIVISIONS)

set_horizontal_range(rnge) ==
    \E ops \in set_horizonal_scale_ops(horizontal_range_scale(rnge)) :
        Finish(<<"set_horizontal_range", rnge>>, <<>>, ops, Returned(None))

SETTLE_DELAY == 1

measure_item_run_any_item(channel, item, reply) ==
    IF channel \notin Channels THEN [ops |-> <<>>, ret |-> Returned(None)]
    ELSE [ops |-> <<Write(<<":MEAS:ITEM %s,CHAN%d", item, channel>>),
                    Sleep(SETTLE_DELAY),
                    QueryAscii(<<":MEAS:ITEM? %s,CHAN%d", item, channel>>)>>,
          ret |-> Returned(reply[1])]

\* reply: the values query_ascii_values parses from the instrument's answer
measure_item_run(channel, item, reply) ==
    IF channel \notin Channels THEN [ops |-> <<>>, ret |-> Returned(None)]
    ELSE IF item \notin {"VMAX", "VMIN", "VPP", "VAVG", "PER", "FREQ"}
         THEN [ops |-> <<>>, ret |-> Returned(None)]
    ELSE [ops |-> <<Write(<<":MEAS:ITEM %s,CHAN%d", item, channel>>),
                    Sleep(SETTLE_DELAY),
                    QueryAscii(<<":MEAS:ITEM? %s,CHAN%d", item, channel>>)>>,
          ret |-> Returned(reply[1])]

MeasReplies == {<<<<7, 2>>>>, <<<<-1, 4>>>>, <<<<5, 1>>, <<9, 1>>>>}

measure_item(channel, item, reply) ==
    LET r == measure_item_run(channel, item, reply)
    IN  Finish(<<"measure_item", channel, item>>, <<"query_ascii_values", reply>>, r.ops, r.ret)

\* every sequence of writes set_trigger can make
set_trigger_ops(mode, coupling, trig_number, channel, level) ==
    LET m == IF mode \in {"EDGE", "PULSE", "RUNT", "WIND", "SLOPE", "NEDG", "PATT", "DEL"}
             THEN <<Write(<<":TRIG:MODE %s", mode>>)>> ELSE <<>>
        c == IF coupling \in {"AC", "DC", "LFR", "HFR"}
             THEN <<Write(<<":TRIG:COUP %s", coupling>>)>> ELSE <<>>
        t == IF trig_number \in {"AUTO", "NORM", "SING"}
             THEN <<Write(<<":TRIG:SWE %s", trig_number>>)>> ELSE <<>>
        s == IF channel \in Channels
             THEN <<Write(<<":TRIG:%s:SOUR CHAN%d", mode, channel>>)>> ELSE <<>>
        ls == IF level /= None
              THEN {<<Write(<<":TRIG:%s:LEV %.4f", mode, v>>)>> : v \in FormatF(level, 4)}
              ELSE {<<>>}
    IN  {m \o c \o t \o s \o l : l \in ls}

set_trigger(mode, coupling, trig_number, channel, level) ==
    \E ops \in set_trigger_ops(mode, coupling, trig_number, channel, level) :
        Finish(<<"set_trigger", mode, coupling, trig_number, channel, level>>, <<>>,
               ops, Returned(None))

(* --------------------------- the instrument --------------------------- *)

\* the 11 bytes in front of the samples of a WAV:DATA? reply
Header == <<"#", "9", "0", "0", "0", "0", "0", "0", "0", "1", "1">>

\* the first sample of each channel, as the instrument prints it
ChanSample(c) == <<CHOOSE d \in {"1", "2", "3", "4"} : d = ToString(c), ".", "5">>

\* the other samples, as the instrument prints them (three characters or more)
TailSamples == {<<"3", ".", "0">>, <<"3", ".", "2", "5">>}

RECURSIVE SeqsUpTo(_, _)
SeqsUpTo(S, n) ==
    IF n = 0 THEN {<<>>}
    ELSE LET shorter == SeqsUpTo(S, n - 1)
         IN  shorter \cup {Append(q, x) : q \in {t \in shorter : Len(t) = n - 1}, x \in S}

\* what the instrument holds during one read_waveform call: tail = the
\* samples after the first, term = the bytes after the last sample,
\* points/dt/t0 = preamble fields 2, 4 and 5
Waves ==
    [tail : SeqsUpTo(TailSamples, MaxTail), term : {<<>>, <<"\n">>},
     points : 0..MaxPoints, dt : {1, 2}, t0 : {0, 3}]

Samples(w, c) == <<ChanSample(c)>> \o w.tail

\* format, type, points, count, xincrement, xorigin, xreference,
\* yincrement, yorigin, yreference; yorigin differs from channel to channel
Preamble(w, c) == <<2, 0, w.points, 1, w.dt, w.t0, 0, 1, c, 0>>

RECURSIVE Join(_)
Join(ss) ==
    IF ss = <<>> THEN <<>>
    ELSE IF Len(ss) = 1 THEN ss[1]
    ELSE ss[1] \o <<",">> \o Join(Tail(ss))

DataReply(w, c) == Header \o Join(Samples(w, c)) \o w.term

\* the channel the instrument answers for: the one of the last
\* ":WAV:SOUR CHAN%d" written (channel 1 before any)
RECURSIVE DeviceSource(_)
DeviceSource(ops) ==
    IF ops = <<>> THEN 1
    ELSE LET o == ops[Len(ops)]
         IN  IF o[1] = "write" /\ o[2][1] = ":WAV:SOUR CHAN%d" THEN o[2][2]
             ELSE DeviceSource(SubSeq(ops, 1, Len(ops) - 1))

(* ------------------------- Python conversions ------------------------- *)

\* s[a:] and s[a:-b]
SliceFrom(s, a) == SubSeq(s, a + 1, Len(s))

SliceBetween(s, a, b) == SubSeq(s, a + 1, Len(s) - b)

\* str() of a bytes object: b'...' with a newline shown as backslash, n
RECURSIVE Escaped(_)
Escaped(bytes) ==
    IF bytes = <<>> THEN <<>>
    ELSE (IF bytes[1] = "\n" THEN <<"\\", "n">> ELSE <<bytes[1]>>) \o Escaped(Tail(bytes))

BytesStr(bytes) == <<"b", "'">> \o Escaped(bytes) \o <<"'">>

\* s.split(',')
RECURSIVE Split(_)
Split(s) ==
    IF \A i \in 1..Len(s) : s[i] /= "," THEN <<s>>
    ELSE LET i == CHOOSE j \in 1..Len(s) : s[j] = "," /\ \A k \in 1..(j - 1) : s[k] /= ","
         IN  <<SubSeq(s, 1, i - 1)>> \o Split(SubSeq(s, i + 1, Len(s)))

Digits == {"0", "1", "2", "3", "4", "5", "6", "7", "8", "9"}

DigitVal(ch) == CHOOSE d \in 0..9 : ToString(d) = ch

RECURSIVE DigitsVal(_)
DigitsVal(s) == IF s = <<>> THEN 0 ELSE 10 * DigitsVal(SubSeq(s, 1, Len(s) - 1)) + DigitVal(s[Len(s)])

RECURSIVE StripZeros(_)
StripZeros(s) ==
    IF s /= <<>> /\ s[Len(s)] = "0" THEN StripZeros(SubSeq(s, 1, Len(s) - 1)) ELSE s

\* float(s) for a text of digits and points: the value as <<n, 10^k>> with
\* the fewest fraction digits; anything else (the empty text too) is a
\* ValueError
Float(s) ==
    LET dots == {i \in 1..Len(s) : s[i] = "."}
        good == /\ \A i \in 1..Len(s) : s[i] \in Digits \cup {"."}
                /\ Cardinality(dots) <= 1
                /\ Len(s) > Cardinality(dots)
    IN  IF ~good THEN [ok |-> FALSE, v |-> None]
        ELSE LET dot == IF dots = {} THEN Len(s) + 1 ELSE CHOOSE i \in dots : TRUE
                 ip == SubSeq(s, 1, dot - 1)
                 fp == StripZeros(SubSeq(s, dot + 1, Len(s)))
             IN  [ok |-> TRUE, v |-> <<DigitsVal(ip \o fp), Pow(10, Len(fp))>>]

\* list(np.arange(0, int(n)) * dt + t0)
TimeAxis(n, dt, t0) == [i \in 1..(IF n > 0 THEN n ELSE 0) |-> (i - 1) * dt + t0]

(* --------------------------- read_waveform ---------------------------- *)

after_invalid_break(rest) == <<>>

\* `continue': the channels still to read after an invalid one
after_invalid(rest) == rest

\* the loop of read_waveform over the channels still to read; acc holds the
\* two result lists, the operations so far and the files written
RECURSIVE read_waveform_loop(_, _, _, _)
read_waveform_loop(chans, file_name, w, acc) ==
    IF chans = <<>> THEN acc
    ELSE LET c == chans[1] IN
      IF c \notin Channels
      THEN read_waveform_loop(after_invalid(Tail(chans)), file_name, w, acc)
      ELSE
        LET ops1 == acc.ops \o <<Write(<<":WAV:SOUR CHAN%d", c>>), Write(<<"WAV:DATA?">>), ReadRaw>>
            data == DataReply(w, DeviceSource(ops1))
            raw_data == SliceFrom(data, 11)
            wav_data_str == Split(SliceBetween(BytesStr(raw_data), 2, 3))
            parsed == [i \in 1..Len(wav_data_str) |-> Float(wav_data_str[i])]
        IN  IF \E i \in 1..Len(parsed) : ~parsed[i].ok
            THEN [acc EXCEPT !.ops = ops1, !.ret = Raised("ValueError")]
            ELSE
              LET wav_data == [i \in 1..Len(parsed) |-> parsed[i].v]
                  ops2 == ops1 \o <<QueryAscii(<<"WAV:PRE?">>)>>
                  preamble == Preamble(w, DeviceSource(ops2))
                  wave_time == TimeAxis(preamble[3], preamble[5], preamble[6])
                  files == IF file_name /= None
                           THEN <<<<file_name[1], "_channel_", c, ".csv", preamble, wav_data>>>>
                           ELSE <<>>
              IN  read_waveform_loop(Tail(chans), file_name, w,
                      [acc EXCEPT !.ops = ops2,
                                  !.csv = @ \o files,
                                  !.all_preambles = Append(@, preamble),
                                  !.all_waveforms = Append(@, <<wave_time, wav_data>>)])

read_waveform_run(channels, file_name, w) ==
    read_waveform_loop(channels, file_name, w,
        [ops |-> <<Write(<<":WAV:MODE NORM">>), Write(<<":WAV:FORM ASCII">>)>>,
         csv |-> <<>>, all_preambles |-> <<>>, all_waveforms |-> <<>>,
         ret |-> Returned(None)])

ChannelLists == SeqsUpTo(ChannelArgs, MaxChannels)

\* the calls of read_waveform tried: every instrument state and file name
\* with the lists of at most one channel, and every list with the
\* instrument states of one time base whose preamble announces the samples
\* held
ReadArgs ==
    {<<cs, f, w>> : cs \in SeqsUpTo(ChannelArgs, 1), f \in FileNameArgs, w \in Waves}
    \cup {<<cs, None, w>> : cs \in ChannelLists,
              w \in {x \in Waves : x.dt = 2 /\ x.t0 = 3 /\ x.points = 1 + Len(x.tail)}}

read_waveform(channels, file_name, w) ==
    LET r == read_waveform_run(channels, file_name, w)
    IN  /\ pc = "idle"
        /\ pc' = "returned"
        /\ call' = <<"read_waveform", channels, file_name>>
        /\ UNCHANGED driver
        /\ IF gpib = "open"
              THEN /\ sent' = r.ops
                   /\ dev' = <<"waveform", w>>
                   /\ csv' = r.csv
                   /\ ret' = IF r.ret[1] = "raise" THEN r.ret
                             ELSE Returned(<<r.all_preambles, r.all_waveforms>>)
              ELSE /\ sent' = <<>>
                   /\ dev' = <<>>
                   /\ csv' = <<>>
                   /\ ret' = HandleError

(* --------------------------- specification ---------------------------- *)

ScopeLists == SeqsUpTo(Addresses, 2)

Next ==
    \/ pc = "idle" /\ \E a \in Addresses \cup {"None"}, ok \in BOOLEAN : initialize(a, ok)
    \/ pc = "idle" /\ close
    \/ next_call
    \/ pc = "idle" /\ \E l \in ScopeLists, ok \in BOOLEAN : find_address(l, ok)
    \/ pc = "idle" /\ autoscale
    \/ pc = "idle" /\ clear
    \/ pc = "idle" /\ run
    \/ pc = "idle" /\ stop
    \/ pc = "idle" /\ single
    \/ pc = "idle" /\ force_trigger
    \/ pc = "idle" /\ \E n \in NumAvgArgs : set_acq_averages(n)
    \/ pc = "idle" /\ \E m \in AcqTypeArgs : set_acq_type(m)
    \/ pc = "idle" /\ \E c \in ChannelArgs, b \in BwArgs : set_bw(c, b)
    \/ pc = "idle" /\ \E c \in ChannelArgs, k \in CouplingArgs : set_coupling_type(c, k)
    \/ pc = "idle" /\ \E c \in ChannelArgs, o \in OnArgs : channel_display(c, o)
    \/ pc = "idle" /\ \E c \in ChannelArgs, r \in FloatArgs, o \in FloatArgs : set_vertical_range(c, r, o)
    \/ pc = "idle" /\ \E x \in ScaleArgs : set_horizonal_scale(x)
    \/ pc = "idle" /\ \E r \in RangeArgs : set_horizontal_range(r)
    \/ pc = "idle" /\ \E c \in ChannelArgs, i \in ItemArgs, r \in MeasReplies : measure_item(c, i, r)
    \/ pc = "idle" /\ \E m \in ModeArgs, k \in CouplingArgs, t \in SweepArgs, c \in ChannelArgs, l \in FloatArgs :
               set_trigger(m, k, t, c, l)
    \/ pc = "idle" /\ \E a \in ReadArgs : read_waveform(a[1], a[2], a[3])

Spec == Init /\ [][Next]_vars

(* ---------------------------- properties ------------------------------ *)

\* a call of the method has just ended
Called(name) == pc = "returned" /\ call[1] = name

Opened == gpib = "open"

IsWrite(op, template) == op[1] = "write" /\ op[2][1] = template

Abs(x) == IF x < 0 THEN -x ELSE x

PowersOfTwo == {Pow(2, k) : k \in 0..10}

ChannelSetters == {"set_bw", "set_coupling_type", "channel_display", "set_vertical_range"}

\* C1 as stated: a channel outside 1..4 makes each channel setter, set_trigger
\* included, write nothing at all.
C1_NoWriteAtAll ==
    /\ \A m \in ChannelSetters : Called(m) /\ call[2] \notin Channels => sent = <<>>
    /\ Called("set_trigger") /\ call[5] \notin Channels => sent = <<>>

\* C1 amended: a channel outside 1..4 makes set_bw, set_coupling_type,
\* channel_display and set_vertical_range write nothing and return None, and
\* makes set_trigger leave out its trigger-source command (its mode,
\* coupling, sweep and level commands may still be written).
C1_InvalidChannelSkipped ==
    /\ \A m \in ChannelSetters :
          Called(m) /\ call[2] \notin Channels => sent = <<>> /\ ret = Returned(None)
    /\ Called("set_trigger") /\ call[5] \notin Channels =>
          \A i \in 1..Len(sent) : ~IsWrite(sent[i], ":TRIG:%s:SOUR CHAN%d")

C1_Witness ==
    /\ Opened
    /\ Called("set_trigger")
    /\ call[5] \notin Channels
    /\ \E i \in 1..Len(sent) : IsWrite(sent[i], ":TRIG:MODE %s")

\* C2: for an averaging count in 1..1024 set_acq_averages writes exactly one
\* "ACQ:AVER" command whose value is a power of two nearest to the count (the
\* count itself when it is a power of two).
C2_NearestPowerOfTwo ==
    Called("set_acq_averages") /\ Opened /\ call[2] \in 1..MAX_AVERAGES =>
        /\ Len(sent) = 1
        /\ IsWrite(sent[1], "ACQ:AVER %d")
        /\ sent[1][2][2] \in PowersOfTwo
        /\ \A q \in PowersOfTwo : Abs(sent[1][2][2] - call[2]) <= Abs(q - call[2])

\* C3: for an averaging count above 1024, odd or even, set_acq_averages
\* writes exactly one command and its value is 1024.
C3_ClampedTo1024 ==
    Called("set_acq_averages") /\ Opened /\ call[2] > 1024 =>
        sent = <<Write(<<"ACQ:AVER %d", 1024>>)>> /\ ret = Returned(None)

C3_Witness ==
    /\ Called("set_acq_averages")
    /\ Opened
    /\ call[2] > 1024
    /\ call[2] % 2 = 1
    /\ Len(sent) = 1

\* C4: when the data reply is the 11-character header and n comma-separated
\* values with nothing after the last one, and the preamble announces n
\* points, read_waveform on one valid channel returns exactly those n values,
\* in order and in full, with the time axis i*dt + t0 for i in 0..n-1.
C4_AllValuesInFull ==
    Called("read_waveform") /\ Opened /\ Len(call[2]) = 1 /\ call[2][1] \in Channels
      /\ dev[2].term = <<>> /\ dev[2].points = Len(Samples(dev[2], call[2][1])) =>
        LET w == dev[2]
            values == Samples(w, call[2][1])
            n == Len(values)
        IN  /\ ret[1] = "return"
            /\ ret[2][2] = << <<[i \in 1..n |-> (i - 1) * w.dt + w.t0],
                               [i \in 1..n |-> Float(values[i]).v]>> >>

\* C5: read_waveform returns two lists as long as the number of requested
\* entries in 1..4; the i-th preamble and the i-th pair are those of the
\* i-th valid entry, in request order; the transport operations are the two
\* set-up writes and four operations for each valid entry, none for an
\* invalid one.
C5_OnePerValidChannel ==
    Called("read_waveform") /\ Opened =>
        LET IsValid(c) == c \in Channels
            valid == SelectSeq(call[2], IsValid)
        IN  /\ ret[1] = "return"
            /\ Len(ret[2][1]) = Len(valid)
            /\ Len(ret[2][2]) = Len(valid)
            /\ Len(sent) = 2 + 4 * Len(valid)
            /\ \A i \in 1..Len(valid) :
                  /\ ret[2][1][i][9] = valid[i]
                  /\ ret[2][2][i][2] /= <<>>
                  /\ ret[2][2][i][2][1][1] \div ret[2][2][i][2][1][2] = valid[i]
                  /\ sent[4 * i - 1] = Write(<<":WAV:SOUR CHAN%d", valid[i]>>)
                  /\ sent[4 * i] = Write(<<"WAV:DATA?">>)
                  /\ sent[4 * i + 1] = ReadRaw
                  /\ sent[4 * i + 2] = QueryAscii(<<"WAV:PRE?">>)

C5_Witness ==
    /\ Called("read_waveform")
    /\ Opened
    /\ Len(call[2]) = 3
    /\ call[2][1] \in Channels
    /\ call[2][2] \notin Channels
    /\ call[2][3] \in Channels
    /\ call[2][3] < call[2][1]
    /\ Len(ret[2][1]) = 2

\* C6: measure_item with an item or a channel that is not supported returns
\* None without any transport operation; with a supported channel and item
\* it writes the set-up command, waits the settle delay, queries the same
\* item and channel once and returns the first value of the reply.
C6_MeasureItem ==
    Called("measure_item") =>
        IF call[2] \notin Channels \/ call[3] \notin {"VMAX", "VMIN", "VPP", "VAVG", "PER", "FREQ"}
        THEN sent = <<>> /\ ret = Returned(None)
        ELSE Opened =>
               /\ sent = <<Write(<<":MEAS:ITEM %s,CHAN%d", call[3], call[2]>>),
                           Sleep(1),
                           QueryAscii(<<":MEAS:ITEM? %s,CHAN%d", call[3], call[2]>>)>>
               /\ ret = Returned(dev[2][1])

C6_Witness ==
    /\ Called("measure_item")
    /\ Opened
    /\ call[2] \in Channels
    /\ call[3] = "VPP"
    /\ Len(sent) = 3
    /\ Len(dev[2]) = 2
    /\ ret = Returned(dev[2][1])

\* C7: set_horizontal_range(r) writes exactly one ":TIM:SCAL" command, whose
\* value is r/12 to seven decimals: the writes of set_horizonal_scale(r/12).
C7_RangeIsTwelveDivisions ==
    Called("set_horizontal_range") /\ Opened =>
        /\ Len(sent) = 1
        /\ IsWrite(sent[1], ":TIM:SCAL %.7f")
        /\ 2 * Abs(12 * call[2][2] * sent[1][2][2] - call[2][1] * 10000000) <= 12 * call[2][2]
        /\ sent \in set_horizonal_scale_ops(<<call[2][1], 12 * call[2][2]>>)
        /\ ret = Returned(None)

C7_Witness ==
    /\ Called("set_horizontal_range")
    /\ Opened
    /\ call[2][1] = 24
    /\ sent = <<Write(<<":TIM:SCAL %.7f", 20>>)>>

\* C8: every (time, voltage) pair read_waveform returns has as many times as
\* voltages, whatever the preamble's sample count and the data reply are.
C8_EqualLengths ==
    Called("read_waveform") /\ Opened /\ ret[1] = "return" =>
        \A i \in 1..Len(ret[2][2]) : Len(ret[2][2][i][1]) = Len(ret[2][2][i][2])

\* C9: when mode is not a supported trigger mode, no command set_trigger
\* writes carries it.
C9_NoUnvalidatedMode ==
    Called("set_trigger")
      /\ call[2] \notin {"EDGE", "PULSE", "RUNT", "WIND", "SLOPE", "NEDG", "PATT", "DEL"} =>
        \A i \in 1..Len(sent) :
            /\ ~IsWrite(sent[i], ":TRIG:MODE %s")
            /\ ~IsWrite(sent[i], ":TRIG:%s:SOUR CHAN%d")
            /\ ~IsWrite(sent[i], ":TRIG:%s:LEV %.4f")

\* C10: is_initialized is True exactly when the transport handle is open.
C10_InitializedIffOpen == is_initialized <=> gpib = "open"

====
